---------------------------- MODULE Spec2Model ----------------------------
(***************************************************************************)
(* A model of session/prefs/Preferences.cpp: the cascading preference      *)
(* store.  Preferences owns layers_, a vector of preference layers (index  *)
(* 0 is the base layer), and offers initialize, readLayers, allLayers and  *)
(* writeLayer.  The layer class itself (readPrefs, writePrefs, readValue,  *)
(* validatePrefs, allPrefs) and createLayers live outside                   *)
(* Preferences.cpp; they are modelled from their documented contract.      *)
(***************************************************************************)
EXTENDS Integers, Sequences, FiniteSets, TLC

\* Number of layers createLayers builds (the model's bound on the stack).
NumLayers == 3

\* Preference names and values the model draws from.
Keys == {"theme", "font"}
Values == {"light", "dark"}

\* Width of the model's size_t: arithmetic on the scan counter is modulo
\* 2^SizeBits.  The platform's width is 32 or 64; any width with
\* 2^SizeBits > NumLayers + 2 gives the same in-bounds/out-of-bounds pattern.
SizeBits == 16
SizeModulus == 2 ^ SizeBits

\* boost::optional's "none", as returned by readValue for an undefined name.
Absent == "absent"

\* Error values.
Success == "Success"
InvalidArgument == "InvalidArgument"
CreateError == "CreateLayersError"
ReadError == "ReadError"
ValidationError == "ValidationError"
WriteErrors == {"IoError", "StorageError"}

VARIABLES
    layers_,    \* Preferences::layers_: 0-based vector of layer contents
    phase,      \* the caller's position: "idle", "returned" or "crashed"
    lastCall,   \* the call that just returned (or crashed), with what it did
    threads     \* writeLayer calls in progress on several threads, if any

vars == <<layers_, phase, lastCall, threads>>

\* A layer's content: a json::Object, name -> value, for some of the names.
Contents == UNION {[D -> Values] : D \in SUBSET Keys}

EmptyContent == [n \in {} |-> "light"]

\* A json::Object given by the caller: its members in iteration order, no
\* name twice.
RECURSIVE Members(_)
Members(ks) ==
    IF ks = {} THEN {<< >>}
    ELSE {<< >>} \cup
         UNION {{<<<<k, v>>>> \o rest : rest \in Members(ks \ {k})} :
                    <<k, v>> \in ks \X Values}

PrefsObjects == Members(Keys)

Names(obj) == {obj[j][1] : j \in 1..Len(obj)}

ValueOf(obj, name) ==
    LET j == CHOOSE j \in 1..Len(obj) : obj[j][1] = name IN obj[j][2]

Size(stack) == Cardinality(DOMAIN stack)

EmptyStack == [i \in {} |-> EmptyContent]

NoCall == [op |-> "none"]

\* No call is in progress on another thread.
NoThreads == [init |-> EmptyStack, th |-> << >>]

---------------------------------------------------------------------------
(* The layer interface. *)

\* PrefLayer::readValue: this layer's own value for name, or none.
ReadValue(layer, name) ==
    IF name \in DOMAIN layer THEN layer[name] ELSE Absent

\* PrefLayer::allPrefs: a snapshot of the layer's content as a document,
\* its members listed as a set of name/value pairs.
AllPrefs(layer) == {<<n, layer[n]>> : n \in DOMAIN layer}

\* A faulty variant of WritePrefs: the given pairs replace the content.
WritePrefsReplace(layer, values) ==
    [n \in Names(values) |-> ValueOf(values, n)]

\* PrefLayer::writePrefs, when it succeeds: the given pairs are added to or
\* updated in the layer's content; other names keep their values.
WritePrefs(layer, values) ==
    [n \in DOMAIN layer \cup Names(values) |->
        IF n \in Names(values) THEN ValueOf(values, n) ELSE layer[n]]


\* PrefLayer::readPrefs: outcome is what the layer's storage yields, either
\* an error (the content in memory is left as it was) or the content read.
ReadPrefs(layer, outcome) ==
    IF outcome.error # Success
    THEN [layer |-> layer, error |-> outcome.error]
    ELSE [layer |-> outcome.content, error |-> Success]

\* PrefLayer::validatePrefs never changes content; its result is an input.
ValidateOutcomes == {Success, ValidationError}
ReadFailure == [error |-> ReadError, content |-> EmptyContent]
ReadOutcomes ==
    {ReadFailure} \cup {[error |-> Success, content |-> c] : c \in Contents}

\* createLayers, when it succeeds: NumLayers layers, nothing read yet.
CreatedStack == [i \in 0..(NumLayers - 1) |-> EmptyContent]

---------------------------------------------------------------------------
(* Preferences::allLayers *)

\* for (auto layer: layers_) layers.push_back(layer->allPrefs());
RECURSIVE AllLayersFrom(_, _, _)
AllLayersFrom(stack, i, layers) ==
    IF i >= Size(stack) THEN layers
    ELSE AllLayersFrom(stack, i + 1, Append(layers, AllPrefs(stack[i])))

\* A faulty variant of AllLayersResult: the base layer is left out.
AllLayersResultSkipBase(stack) == AllLayersFrom(stack, 1, << >>)

AllLayersResult(stack) == AllLayersFrom(stack, 0, << >>)

---------------------------------------------------------------------------
(* Preferences::readLayers *)

\* A faulty variant of ReadStep: the loop stops at the first layer that fails.
ReadStepAbort(st, i, r) ==
    [stack  |-> [st.stack EXCEPT ![i] = r.layer],
     calls  |-> Append(st.calls, <<"readPrefs", i>>),
     logged |-> IF r.error # Success THEN Append(st.logged, <<i, r.error>>)
                ELSE st.logged,
     next   |-> IF r.error # Success THEN Size(st.stack) ELSE i + 1]

\* What readLayers does once layer i's readPrefs has returned error: the
\* error is logged and the loop goes on.
ReadStep(st, i, r) ==
    [stack  |-> [st.stack EXCEPT ![i] = r.layer],
     calls  |-> Append(st.calls, <<"readPrefs", i>>),
     logged |-> IF r.error # Success THEN Append(st.logged, <<i, r.error>>)
                ELSE st.logged,
     next   |-> i + 1]

\* The loop of readLayers from layer i on; outcome[i] is what layer i's
\* storage yields.
RECURSIVE ReadLayersFrom(_, _)
ReadLayersFrom(st, outcome) ==
    IF st.next >= Size(st.stack) THEN st
    ELSE ReadLayersFrom(
             ReadStep(st, st.next, ReadPrefs(st.stack[st.next], outcome[st.next])),
             outcome)

\* A faulty variant of ReadLayers: the last layer's error is returned.
ReadLayersPropagate(stack, outcome) ==
    LET st == ReadLayersFrom(
                  [stack |-> stack, calls |-> << >>, logged |-> << >>, next |-> 0],
                  outcome)
    IN  [stack |-> st.stack, calls |-> st.calls, logged |-> st.logged,
         error |-> IF Size(stack) > 0 THEN outcome[Size(stack) - 1].error
                   ELSE Success]

\* readLayers: reads every layer, logs failures, returns Success().
ReadLayers(stack, outcome) ==
    LET st == ReadLayersFrom(
                  [stack |-> stack, calls |-> << >>, logged |-> << >>, next |-> 0],
                  outcome)
    IN  [stack |-> st.stack, calls |-> st.calls, logged |-> st.logged,
         error |-> Success]

---------------------------------------------------------------------------
(* Preferences::initialize *)

\* A faulty variant of ValidateStep: the first failed validation ends the loop.
ValidateStepAbort(st, i, error) ==
    [calls  |-> Append(st.calls, <<"validatePrefs", i>>),
     logged |-> IF error # Success THEN Append(st.logged, <<i, error>>)
                ELSE st.logged,
     next   |-> IF error # Success THEN NumLayers ELSE i + 1]

\* What initialize does once layer i's validatePrefs has returned error.
ValidateStep(st, i, error) ==
    [calls  |-> Append(st.calls, <<"validatePrefs", i>>),
     logged |-> IF error # Success THEN Append(st.logged, <<i, error>>)
                ELSE st.logged,
     next   |-> i + 1]

RECURSIVE ValidateLayersFrom(_, _, _)
ValidateLayersFrom(st, size, valid) ==
    IF st.next >= size THEN st
    ELSE ValidateLayersFrom(ValidateStep(st, st.next, valid[st.next]), size, valid)

\* initialize, given what createLayers returned (created), what each
\* layer's storage yields (outcome) and what each validation returns (valid).
InitializeResult(stack, created, outcome, valid) ==
    IF created # Success
    THEN [stack |-> stack, calls |-> << >>, logged |-> << >>, error |-> created]
    ELSE LET rd == ReadLayers(CreatedStack, outcome) IN
         IF rd.error # Success
         THEN [stack |-> rd.stack, calls |-> rd.calls, logged |-> rd.logged,
               error |-> rd.error]
         ELSE LET vd == ValidateLayersFrom(
                            [calls |-> rd.calls, logged |-> rd.logged, next |-> 0],
                            Size(rd.stack), valid)
              IN  [stack |-> rd.stack, calls |-> vd.calls, logged |-> vd.logged,
                   error |-> Success]

---------------------------------------------------------------------------
(* Preferences::writeLayer *)

\* A faulty variant of ValidLayer: the base layer is not rejected.
ValidLayerNoBase(stack, layer) == ~(layer >= Size(stack))

\* if (layer >= layers_.size() || layer < 1) return invalid_argument
ValidLayer(stack, layer) == ~(layer >= Size(stack) \/ layer < 1)

\* A faulty variant of StartIndex: the scan starts at the base layer.
StartIndexBase(layer) == 0

\* size_t i = layer - 1
StartIndex(layer) == (layer - 1) % SizeModulus

\* --i on a size_t
Dec(i) == (i - 1) % SizeModulus

\* i >= 0, the loop's condition
LoopCond(i) == i >= 0

\* layers_[i] with i outside the vector is undefined behaviour.  The read
\* either faults, or yields whatever lies there, which readValue then
\* reports as a value equal to or different from the proposed one (a read
\* reported as none only leads to the next out-of-bounds read).
OutOfBoundsRead(i) ==
    {[found |-> FALSE, differs |-> FALSE, crashed |-> TRUE, reads |-> <<i>>],
     [found |-> TRUE, differs |-> FALSE, crashed |-> FALSE, reads |-> <<i>>],
     [found |-> TRUE, differs |-> TRUE, crashed |-> FALSE, reads |-> <<i>>]}

\* if (val) { found = true; if (!(*val == pref.value())) differs = true; break; }
Compare(val, value, i) ==
    [found |-> TRUE, differs |-> ~(val = value), crashed |-> FALSE, reads |-> <<i>>]

\* The scan of the lower layers for one pref, from index i down: the set of
\* ways it can end, each with found, differs and the indices read.
RECURSIVE ScanLower(_, _, _, _)
ScanLower(stack, i, name, value) ==
    IF ~LoopCond(i)
    THEN {[found |-> FALSE, differs |-> FALSE, crashed |-> FALSE, reads |-> << >>]}
    ELSE IF i \notin DOMAIN stack
    THEN OutOfBoundsRead(i)
    ELSE LET val == ReadValue(stack[i], name) IN
         IF val # Absent
         THEN {Compare(val, value, i)}
         ELSE {[r EXCEPT !.reads = <<i>> \o @] :
                   r \in ScanLower(stack, Dec(i), name, value)}

\* Faulty variants of IsUnique: every pair is written / the comparison
\* with the lower layer's value is dropped.
IsUniqueAlways(r) == TRUE
IsUniqueNotFound(r) == ~r.found

\* if (!found || differs) unique[pref.name()] = pref.value();
IsUnique(r) == ~r.found \/ r.differs

ReadCalls(reads, name) == [j \in 1..Len(reads) |-> <<"readValue", reads[j], name>>]

\* The body of the loop over prefs for member k, given how its scan ended.
PrefStep(acc, pref, r) ==
    [unique  |-> IF ~r.crashed /\ IsUnique(r) THEN Append(acc.unique, pref)
                 ELSE acc.unique,
     calls   |-> acc.calls \o ReadCalls(r.reads, pref[1]),
     crashed |-> r.crashed]

\* for (const auto pref: prefs) ..., from member k on: the set of ways the
\* loop can end.
RECURSIVE UniqueFrom(_, _, _, _, _)
UniqueFrom(stack, layer, prefs, k, acc) ==
    IF k > Len(prefs) THEN {acc}
    ELSE UNION {
           LET step == PrefStep(acc, prefs[k], r) IN
           IF step.crashed THEN {step}
           ELSE UniqueFrom(stack, layer, prefs, k + 1, step) :
           r \in ScanLower(stack, StartIndex(layer), prefs[k][1], prefs[k][2])}

\* A faulty variant of WriteLayerReturn: the write's error is swallowed.
WriteLayerReturnSwallow(result) == Success

\* if (result) return result; return Success();
WriteLayerReturn(result) == IF result # Success THEN result ELSE Success

\* The notifications a writeLayer call emits once writePrefs has returned
\* result: none, the call onChanged("") being commented out.
Notifications(result) == << >>

\* A faulty variant of WriteStep: writePrefs is called on the layer below.
WriteStepBelow(stack, layer, u, result) ==
    [stack    |-> IF result = Success
                  THEN [stack EXCEPT ![layer - 1] = WritePrefs(@, u.unique)]
                  ELSE stack,
     error    |-> WriteLayerReturn(result),
     crashed  |-> FALSE,
     unique   |-> u.unique,
     wrote    |-> result,
     notified |-> Notifications(result),
     calls    |-> Append(u.calls, <<"writePrefs", layer - 1, u.unique>>)]

\* Error result = layers_[layer]->writePrefs(unique), and the return.
WriteStep(stack, layer, u, result) ==
    [stack   |-> IF result = Success
                 THEN [stack EXCEPT ![layer] = WritePrefs(@, u.unique)]
                 ELSE stack,
     error   |-> WriteLayerReturn(result),
     crashed |-> FALSE,
     unique  |-> u.unique,
     wrote   |-> result,
     notified |-> Notifications(result),
     calls   |-> Append(u.calls, <<"writePrefs", layer, u.unique>>)]

\* writeLayer(layer, prefs) on stack: the set of ways the call can end.
WriteLayerOutcomes(stack, layer, prefs) ==
    IF ~ValidLayer(stack, layer)
    THEN {[stack |-> stack, error |-> InvalidArgument, crashed |-> FALSE,
           unique |-> << >>, wrote |-> "none", notified |-> << >>,
           calls |-> << >>]}
    ELSE UNION {
           IF u.crashed
           THEN {[stack |-> stack, error |-> "none", crashed |-> TRUE,
                  unique |-> u.unique, wrote |-> "none", notified |-> << >>,
                  calls |-> u.calls]}
           ELSE {WriteStep(stack, layer, u, result) :
                     result \in {Success} \cup WriteErrors} :
           u \in UniqueFrom(stack, layer, prefs, 1,
                            [unique |-> << >>, calls |-> << >>, crashed |-> FALSE])}

---------------------------------------------------------------------------
(* The state machine *)

\* Layer indices a caller may pass: valid ones, 0, and two past the end.
LayerArgs == 0..(NumLayers + 1)

Init ==
    /\ layers_ = EmptyStack
    /\ phase = "idle"
    /\ lastCall = NoCall
    /\ threads = NoThreads

Initialize ==
    /\ phase = "idle"
    /\ Size(layers_) = 0
    /\ \E created \in {Success, CreateError} :
       \E outcome \in [0..(NumLayers - 1) -> ReadOutcomes] :
       \E valid \in [0..(NumLayers - 1) -> ValidateOutcomes] :
          LET r == InitializeResult(layers_, created, outcome, valid) IN
          /\ layers_' = r.stack
          /\ lastCall' = [op |-> "initialize", created |-> created,
                          readErr |-> [i \in DOMAIN outcome |-> outcome[i].error],
                          valid |-> valid,
                          error |-> r.error, calls |-> r.calls,
                          logged |-> r.logged]
    /\ phase' = "returned"
    /\ UNCHANGED threads

\* readLayers called on its own.  Storage is written only through
\* writePrefs, so a read that succeeds yields the content the layer holds.
ReadLayersCall ==
    /\ phase = "idle"
    /\ \E fails \in SUBSET DOMAIN layers_ :
          LET outcome == [i \in DOMAIN layers_ |->
                             IF i \in fails THEN ReadFailure
                             ELSE [error |-> Success, content |-> layers_[i]]]
              r == ReadLayers(layers_, outcome)
          IN  /\ layers_' = r.stack
              /\ lastCall' = [op |-> "readLayers",
                              readErr |-> [i \in DOMAIN outcome |-> outcome[i].error],
                              error |-> r.error,
                              calls |-> r.calls, logged |-> r.logged]
    /\ phase' = "returned"
    /\ UNCHANGED threads

AllLayers ==
    /\ phase = "idle"
    /\ lastCall' = [op |-> "allLayers", result |-> AllLayersResult(layers_)]
    /\ phase' = "returned"
    /\ UNCHANGED <<layers_, threads>>

WriteLayerDo(layer, prefs) ==
    \E o \in WriteLayerOutcomes(layers_, layer, prefs) :
       /\ layers_' = o.stack
       /\ lastCall' = [op |-> "writeLayer", layer |-> layer, prefs |-> prefs,
                       error |-> o.error, unique |-> o.unique,
                       wrote |-> o.wrote, notified |-> o.notified,
                       calls |-> o.calls]
       /\ phase' = IF o.crashed THEN "crashed" ELSE "returned"

WriteLayer ==
    /\ phase = "idle"
    /\ \E layer \in LayerArgs : \E prefs \in PrefsObjects :
          WriteLayerDo(layer, prefs)
    /\ UNCHANGED threads

\* The caller repeats the writeLayer call that has just succeeded.
WriteLayerAgain ==
    /\ phase = "returned"
    /\ lastCall.op = "writeLayer"
    /\ lastCall.error = Success
    /\ WriteLayerDo(lastCall.layer, lastCall.prefs)
    /\ UNCHANGED threads

\* The caller takes the result and goes on.
Return ==
    /\ phase = "returned"
    /\ phase' = "idle"
    /\ lastCall' = NoCall
    /\ UNCHANGED <<layers_, threads>>

Next ==
    \/ Initialize
    \/ ReadLayersCall
    \/ AllLayers
    \/ WriteLayer
    \/ WriteLayerAgain
    \/ Return

Spec == Init /\ [][Next]_vars

---------------------------------------------------------------------------
(* Two writeLayer calls on two threads, with no lock in Preferences: the
   calls interleave at each readValue and writePrefs call.  The calls are
   on two adjacent layers; the higher one and the layers above it start
   with nothing stored. *)

ThreadIds == {1, 2}

\* The stacks initialize can leave.
LoadedStacks == [0..(NumLayers - 1) -> Contents]

\* The objects that give every preference a value, their members in one
\* order (a caller saving its whole set of preferences).
FullPrefs ==
    {p \in PrefsObjects : Names(p) = Keys /\ p[1][1] = "theme"}

\* writeLayer up to its first call on a layer: the index check, and the
\* start of the scan for the first member of prefs.
ThreadBegin(stack, layer, prefs) ==
    [pc     |-> IF ~ValidLayer(stack, layer) THEN "done"
                ELSE IF Len(prefs) = 0 THEN "write" ELSE "scan",
     layer  |-> layer,
     prefs  |-> prefs,
     k      |-> 1,
     i      |-> StartIndex(layer),
     unique |-> << >>,
     error  |-> IF ~ValidLayer(stack, layer) THEN InvalidArgument ELSE "none",
     early  |-> FALSE,
     late   |-> FALSE]

\* One pass through the scan loop's body at index i: the ways the read of
\* layers_[i] can end; more says the name was absent and the loop goes on.
ReadOnce(stack, i, name, value) ==
    IF ~LoopCond(i)
    THEN {[found |-> FALSE, differs |-> FALSE, crashed |-> FALSE,
           reads |-> << >>, more |-> FALSE]}
    ELSE IF i \notin DOMAIN stack
    THEN {[found |-> r.found, differs |-> r.differs, crashed |-> r.crashed,
           reads |-> r.reads, more |-> FALSE] : r \in OutOfBoundsRead(i)}
    ELSE LET val == ReadValue(stack[i], name)
             r == Compare(val, value, i)
         IN  IF val # Absent
             THEN {[found |-> r.found, differs |-> r.differs, crashed |-> FALSE,
                    reads |-> r.reads, more |-> FALSE]}
             ELSE {[found |-> FALSE, differs |-> FALSE, crashed |-> FALSE,
                    reads |-> <<i>>, more |-> TRUE]}

\* A faulty variant of ThreadAfterScan: every pair is recorded as unique.
ThreadAfterScanAlways(th, r) ==
    [th EXCEPT !.unique = Append(th.unique, th.prefs[th.k]),
               !.k = th.k + 1,
               !.i = StartIndex(th.layer),
               !.pc = IF th.k + 1 > Len(th.prefs) THEN "write" ELSE "scan"]

\* Lines 97-103 once the scan for member k has ended with r: the pair is
\* recorded if unique, and the loop over prefs goes to the next member.
ThreadAfterScan(th, r) ==
    [th EXCEPT !.unique = IF IsUnique(r) THEN Append(th.unique, th.prefs[th.k])
                          ELSE th.unique,
               !.k = th.k + 1,
               !.i = StartIndex(th.layer),
               !.pc = IF th.k + 1 > Len(th.prefs) THEN "write" ELSE "scan"]

\* The thread notes whether it reads the other call's target layer before
\* or after the other call's writePrefs has stored its pairs.
Observe(th, other) ==
    IF th.i # other.layer THEN th
    ELSE IF other.pc = "done" /\ other.error = Success
    THEN [th EXCEPT !.late = TRUE]
    ELSE [th EXCEPT !.early = TRUE]

ConcInit ==
    /\ \E stack \in LoadedStacks :
       \E lower \in DOMAIN stack :
       \E pa \in FullPrefs : \E pb \in FullPrefs :
          /\ ValidLayer(stack, lower)
          /\ ValidLayer(stack, lower + 1)
          /\ \A i \in DOMAIN stack : i > lower => stack[i] = EmptyContent
          /\ layers_ = stack
          /\ threads = [init |-> stack,
                        th |-> <<ThreadBegin(stack, lower, pa),
                                 ThreadBegin(stack, lower + 1, pb)>>]
    /\ phase = "concurrent"
    /\ lastCall = NoCall

\* Thread t makes its next readValue call.
ThreadRead(t) ==
    LET th == threads.th[t]
        seen == Observe(th, threads.th[3 - t])
    IN  /\ phase = "concurrent"
        /\ th.pc = "scan"
        /\ \E r \in ReadOnce(layers_, th.i, th.prefs[th.k][1], th.prefs[th.k][2]) :
              /\ phase' = IF r.crashed THEN "crashed" ELSE phase
              /\ threads' =
                    IF r.crashed THEN threads
                    ELSE IF r.more
                    THEN [threads EXCEPT !.th[t] = [seen EXCEPT !.i = Dec(th.i)]]
                    ELSE [threads EXCEPT !.th[t] = ThreadAfterScan(seen, r)]
        /\ UNCHANGED <<layers_, lastCall>>

\* Thread t makes its writePrefs call and returns.
ThreadWrite(t) ==
    LET th == threads.th[t] IN
    /\ phase = "concurrent"
    /\ th.pc = "write"
    /\ \E result \in {Success} \cup WriteErrors :
          LET w == WriteStep(layers_, th.layer,
                             [unique |-> th.unique, calls |-> << >>], result)
          IN  /\ layers_' = w.stack
              /\ threads' = [threads EXCEPT !.th[t] =
                                [th EXCEPT !.pc = "done", !.error = w.error]]
    /\ UNCHANGED <<phase, lastCall>>

ThreadReads == \E t \in ThreadIds : ThreadRead(t)

ThreadWrites == \E t \in ThreadIds : ThreadWrite(t)

ConcNext ==
    \/ ThreadReads
    \/ ThreadWrites

SpecConc == ConcInit /\ [][ConcNext]_vars

---------------------------------------------------------------------------
(* Properties *)

\* The indices writeLayer accepts on stack.
ValidIndices(stack) == {L \in DOMAIN stack : L >= 1}

\* The lower layers of L that define name, and the nearest of them.
LowerDefining(stack, L, name) ==
    {i \in DOMAIN stack : i < L /\ name \in DOMAIN stack[i]}

NearestLower(stack, L, name) ==
    CHOOSE i \in LowerDefining(stack, L, name) :
        \A j \in LowerDefining(stack, L, name) : j <= i

Stores(stack, L, name, value) ==
    name \in DOMAIN stack[L] /\ stack[L][name] = value

InUnique(unique, pref) == \E j \in 1..Len(unique) : unique[j] = pref

\* The step is a writeLayer call, made on the stack layers_.
WriteLayerStep == lastCall'.op = "writeLayer" /\ vars' # vars

\* A read of layers_[i] outside the stack is among the calls.
ReadOutOfBounds(stack, calls) ==
    \E j \in 1..Len(calls) :
        calls[j][1] = "readValue" /\ calls[j][2] \notin DOMAIN stack

\* C1: for a valid layer L and a proposed pair (name, value) whose name no
\* layer below L defines, writeLayer(L, prefs) completes, returns success
\* when writePrefs succeeds, and layer L then stores name with that value.
C1_UndefinedBelowIsStored ==
    [][WriteLayerStep /\ lastCall'.layer \in ValidIndices(layers_) =>
        \A j \in 1..Len(lastCall'.prefs) :
            LET name == lastCall'.prefs[j][1]
                value == lastCall'.prefs[j][2]
            IN  LowerDefining(layers_, lastCall'.layer, name) = {} =>
                    /\ phase' = "returned"
                    /\ lastCall'.wrote = Success =>
                           /\ lastCall'.error = Success
                           /\ Stores(layers_', lastCall'.layer, name, value)]_vars

\* C2: for a valid layer L and a proposed pair whose nearest lower layer
\* defining the name holds an equal value, the pair is not among those
\* passed to writePrefs and layer L's entry for the name is left as it was.
C2_EqualBelowIsOmitted ==
    [][WriteLayerStep /\ lastCall'.layer \in ValidIndices(layers_) =>
        \A j \in 1..Len(lastCall'.prefs) :
            LET L == lastCall'.layer
                name == lastCall'.prefs[j][1]
                value == lastCall'.prefs[j][2]
            IN  (/\ LowerDefining(layers_, L, name) # {}
                 /\ layers_[NearestLower(layers_, L, name)][name] = value) =>
                    /\ ~InUnique(lastCall'.unique, lastCall'.prefs[j])
                    /\ ReadValue(layers_'[L], name) = ReadValue(layers_[L], name)]_vars

\* The spec's scenario: base {theme: light}, writeLayer(1, {theme: light})
\* has returned success and layer 1 is still empty.
C2_Witness ==
    /\ phase = "returned"
    /\ lastCall.op = "writeLayer"
    /\ lastCall.layer = 1
    /\ lastCall.prefs = <<<<"theme", "light">>>>
    /\ lastCall.error = Success
    /\ ReadValue(layers_[0], "theme") = "light"
    /\ lastCall.unique = << >>
    /\ layers_[1] = EmptyContent

\* C3: for a valid layer L and a proposed pair whose nearest lower layer
\* defining the name holds a different value, the pair is among those passed
\* to writePrefs, and after a successful call layer L stores it.
C3_DifferentBelowIsStored ==
    [][WriteLayerStep /\ lastCall'.layer \in ValidIndices(layers_) =>
        \A j \in 1..Len(lastCall'.prefs) :
            LET L == lastCall'.layer
                name == lastCall'.prefs[j][1]
                value == lastCall'.prefs[j][2]
            IN  (/\ LowerDefining(layers_, L, name) # {}
                 /\ layers_[NearestLower(layers_, L, name)][name] # value) =>
                    /\ lastCall'.wrote # "none" =>
                           InUnique(lastCall'.unique, lastCall'.prefs[j])
                    /\ lastCall'.error = Success =>
                           Stores(layers_', L, name, value)]_vars

\* The spec's scenario: base {theme: light}, writeLayer(1, {theme: dark})
\* has returned success and layer 1 stores {theme: dark}.
C3_Witness ==
    /\ phase = "returned"
    /\ lastCall.op = "writeLayer"
    /\ lastCall.layer = 1
    /\ lastCall.prefs = <<<<"theme", "dark">>>>
    /\ lastCall.error = Success
    /\ ReadValue(layers_[0], "theme") = "light"
    /\ lastCall.unique = <<<<"theme", "dark">>>>
    /\ Stores(layers_, 1, "theme", "dark")

\* C4: writeLayer with index 0 or an index >= the stack size returns
\* InvalidArgument, makes no readValue and no writePrefs call, and leaves
\* every layer's content as it was.
C4_InvalidIndexRejected ==
    [][WriteLayerStep /\ lastCall'.layer \notin ValidIndices(layers_) =>
        /\ phase' = "returned"
        /\ lastCall'.error = InvalidArgument
        /\ lastCall'.calls = << >>
        /\ layers_' = layers_]_vars

\* writeLayer(0, prefs) with a pair to write has been rejected on a stack
\* that has layers.
C4_Witness ==
    /\ phase = "returned"
    /\ lastCall.op = "writeLayer"
    /\ lastCall.layer = 0
    /\ Len(lastCall.prefs) > 0
    /\ Size(layers_) > 1
    /\ lastCall.error = InvalidArgument

\* C5: for a valid index, the writeLayer call that returns returns exactly
\* what the target layer's writePrefs returned: that error if it failed,
\* success if it succeeded.
C5_WriteErrorPropagated ==
    [][(/\ WriteLayerStep
        /\ lastCall'.layer \in ValidIndices(layers_)
        /\ phase' = "returned") =>
        /\ lastCall'.wrote \in {Success} \cup WriteErrors
        /\ lastCall'.error = lastCall'.wrote
        /\ lastCall'.calls[Len(lastCall'.calls)][1] = "writePrefs"]_vars

\* A writeLayer call on a valid index has returned the error of writePrefs.
C5_Witness ==
    /\ phase = "returned"
    /\ lastCall.op = "writeLayer"
    /\ lastCall.layer \in ValidIndices(layers_)
    /\ lastCall.wrote \in WriteErrors
    /\ lastCall.error = lastCall.wrote

\* The layers whose readPrefs failed, by the errors readErr records.
FailedReads(readErr) == {i \in DOMAIN readErr : readErr[i] # Success}

\* calls[from + 1 .. from + n] are one call of method on each of the layers
\* 0..n-1, in ascending order.
CallsEachInOrder(calls, from, n, method) ==
    /\ Len(calls) >= from + n
    /\ \A i \in 0..(n - 1) : calls[from + i + 1] = <<method, i>>

\* C6: initialize returns an error exactly when createLayers failed, then
\* returns that error without calling readPrefs or validatePrefs; whatever
\* readPrefs and validatePrefs return, initialize returns success.
C6_InitializeFailsOnlyOnCreate ==
    lastCall.op = "initialize" =>
        /\ lastCall.error # Success <=> lastCall.created # Success
        /\ lastCall.created # Success =>
               /\ lastCall.error = lastCall.created
               /\ lastCall.calls = << >>
        /\ lastCall.created = Success =>
               Len(lastCall.calls) = 2 * Size(layers_)

\* initialize has returned success although the base layer's readPrefs and
\* another layer's validatePrefs failed.
C6_Witness ==
    /\ phase = "returned"
    /\ lastCall.op = "initialize"
    /\ lastCall.created = Success
    /\ lastCall.readErr[0] # Success
    /\ \E i \in DOMAIN lastCall.valid : i > 0 /\ lastCall.valid[i] # Success
    /\ lastCall.error = Success

\* C7: readLayers calls readPrefs once on every layer in ascending index
\* order whichever layers fail, logs each failure, and returns success.
C7_ReadLayersReadsEveryLayer ==
    /\ lastCall.op = "readLayers" =>
           /\ Len(lastCall.calls) = Size(layers_)
           /\ CallsEachInOrder(lastCall.calls, 0, Size(layers_), "readPrefs")
           /\ lastCall.error = Success
           /\ Len(lastCall.logged) = Cardinality(FailedReads(lastCall.readErr))
           /\ \A i \in FailedReads(lastCall.readErr) :
                  \E j \in 1..Len(lastCall.logged) :
                      lastCall.logged[j] = <<i, lastCall.readErr[i]>>
    /\ (lastCall.op = "initialize" /\ lastCall.created = Success) =>
           /\ CallsEachInOrder(lastCall.calls, 0, Size(layers_), "readPrefs")
           /\ \A i \in FailedReads(lastCall.readErr) :
                  \E j \in 1..Len(lastCall.logged) :
                      lastCall.logged[j] = <<i, lastCall.readErr[i]>>

\* readLayers has returned with the base layer's readPrefs having failed
\* and a higher layer's having succeeded.
C7_Witness ==
    /\ phase = "returned"
    /\ lastCall.op = "readLayers"
    /\ Size(layers_) > 1
    /\ lastCall.readErr[0] # Success
    /\ \E i \in DOMAIN lastCall.readErr : i > 0 /\ lastCall.readErr[i] = Success
    /\ Len(lastCall.calls) = Size(layers_)

\* C8: allLayers returns one snapshot per layer, the i-th being layer i's
\* allPrefs, index 0 first, and changes no layer's content.
C8_AllLayersInStackOrder ==
    [][(lastCall'.op = "allLayers" /\ vars' # vars) =>
        /\ Len(lastCall'.result) = Size(layers_)
        /\ \A i \in DOMAIN layers_ :
               lastCall'.result[i + 1] = AllPrefs(layers_[i])
        /\ layers_' = layers_]_vars

\* allLayers has returned the snapshots of a stack whose layers differ.
C8_Witness ==
    /\ phase = "returned"
    /\ lastCall.op = "allLayers"
    /\ Size(layers_) > 1
    /\ Len(lastCall.result) = Size(layers_)
    /\ layers_[0] # layers_[1]
    /\ layers_[1] # EmptyContent
    /\ lastCall.result[1] = AllPrefs(layers_[0])

\* C9: writeLayer(L, prefs) made twice in a row, both calls succeeding,
\* leaves every layer as the first call left it.
C9_WriteLayerIdempotent ==
    [][(/\ phase = "returned"
        /\ lastCall.op = "writeLayer"
        /\ lastCall.error = Success
        /\ lastCall'.op = "writeLayer"
        /\ lastCall'.layer = lastCall.layer
        /\ lastCall'.prefs = lastCall.prefs
        /\ lastCall'.error = Success) =>
        layers_' = layers_]_vars

\* Layer M stores no value equal to the one its nearest lower layer that
\* defines the name provides.
NoDuplicateIn(stack, M) ==
    \A name \in DOMAIN stack[M] :
        LowerDefining(stack, M, name) # {} =>
            stack[NearestLower(stack, M, name)][name] # stack[M][name]

CascadeInvariant(stack) == \A M \in ValidIndices(stack) : NoDuplicateIn(stack, M)

EffectiveValue(stack, L, name) ==
    IF LowerDefining(stack, L + 1, name) = {} THEN Absent
    ELSE stack[NearestLower(stack, L + 1, name)][name]

\* The indices read by the readValue calls made for name, in call order.
IsReadOf(c, name) == c[1] = "readValue" /\ c[3] = name

ReadsOf(calls, name) ==
    LET sel == SelectSeq(calls, LAMBDA c : IsReadOf(c, name))
    IN  [j \in 1..Len(sel) |-> sel[j][2]]

\* C11: after a successful writeLayer(L, prefs), every proposed pair's name
\* has the proposed value as its effective value seen from layer L (here
\* for the calls whose scans read no index outside the stack).
C11_EffectiveValueIsProposed ==
    [][(/\ WriteLayerStep
        /\ lastCall'.error = Success
        /\ ~ReadOutOfBounds(layers_, lastCall'.calls)) =>
        \A j \in 1..Len(lastCall'.prefs) :
            EffectiveValue(layers_', lastCall'.layer, lastCall'.prefs[j][1])
                = lastCall'.prefs[j][2]]_vars

\* C12: every index at which the scan of writeLayer(L, prefs) reads
\* layers_[i] lies in 0..L-1.
C12_ScanStaysInBounds ==
    [][(WriteLayerStep /\ lastCall'.layer \in ValidIndices(layers_)) =>
        \A j \in 1..Len(lastCall'.calls) :
            lastCall'.calls[j][1] = "readValue" =>
                lastCall'.calls[j][2] \in 0..(lastCall'.layer - 1)]_vars

\* C13: writeLayer on a valid index returns a result, and the scan made for
\* each proposed pair reads at most L layers.
C13_WriteLayerReturns ==
    [][(WriteLayerStep /\ lastCall'.layer \in ValidIndices(layers_)) =>
        /\ phase' = "returned"
        /\ lastCall'.error \in {Success} \cup WriteErrors
        /\ \A j \in 1..Len(lastCall'.prefs) :
               Len(ReadsOf(lastCall'.calls, lastCall'.prefs[j][1]))
                   <= lastCall'.layer]_vars

\* The indices L-1, L-2, ..., nearest, in that order.
DownTo(L, nearest) == [j \in 1..(L - nearest) |-> L - j]

\* C14: the scan made for a proposed pair reads layers L-1, L-2, ... and
\* stops at the nearest lower layer that defines the name, reading no layer
\* below it; the pair is passed to writePrefs exactly when that layer's
\* value differs from the proposed one.
C14_NearestLowerDecides ==
    [][(WriteLayerStep /\ lastCall'.layer \in ValidIndices(layers_)) =>
        \A j \in 1..Len(lastCall'.prefs) :
            LET L == lastCall'.layer
                name == lastCall'.prefs[j][1]
                value == lastCall'.prefs[j][2]
                reads == ReadsOf(lastCall'.calls, name)
            IN  LowerDefining(layers_, L, name) # {} =>
                    LET nearest == NearestLower(layers_, L, name) IN
                    /\ reads # << >> => reads = DownTo(L, nearest)
                    /\ lastCall'.wrote # "none" =>
                           /\ reads # << >>
                           /\ InUnique(lastCall'.unique, lastCall'.prefs[j])
                                  <=> layers_[nearest][name] # value]_vars

\* The spec's scenario: base {theme: light}, mid {theme: dark};
\* writeLayer(2, {theme: light}) has read only mid and stored the pair in
\* the top layer.
C14_Witness ==
    /\ phase = "returned"
    /\ lastCall.op = "writeLayer"
    /\ lastCall.layer = 2
    /\ lastCall.prefs = <<<<"theme", "light">>>>
    /\ lastCall.error = Success
    /\ ReadValue(layers_[0], "theme") = "light"
    /\ ReadValue(layers_[1], "theme") = "dark"
    /\ ReadsOf(lastCall.calls, "theme") = <<1>>
    /\ Stores(layers_, 2, "theme", "light")

\* The pairs of prefs that no layer below L defines, or that the nearest
\* lower layer defining them holds with a different value.
ExpectedUnique(stack, L, prefs) ==
    {prefs[j] : j \in {k \in 1..Len(prefs) :
        \/ LowerDefining(stack, L, prefs[k][1]) = {}
        \/ stack[NearestLower(stack, L, prefs[k][1])][prefs[k][1]] # prefs[k][2]}}

WritePrefsCalls(calls) == SelectSeq(calls, LAMBDA c : c[1] = "writePrefs")

\* C15: writeLayer on a valid index L calls writePrefs exactly once, on
\* layer L, with exactly the pairs no lower layer defines or the nearest
\* lower layer holds with a different value, also when there are none.
C15_WritesExactlyTheUniquePairs ==
    [][(WriteLayerStep /\ lastCall'.layer \in ValidIndices(layers_)) =>
        LET w == WritePrefsCalls(lastCall'.calls) IN
        /\ Len(w) = 1
        /\ w[1][2] = lastCall'.layer
        /\ {w[1][3][j] : j \in 1..Len(w[1][3])}
               = ExpectedUnique(layers_, lastCall'.layer, lastCall'.prefs)]_vars

\* C16: when createLayers succeeds, initialize calls readPrefs on every
\* layer in stack order and then validatePrefs once on every layer in stack
\* order, whichever of these calls fail.
C16_ReadsThenValidates ==
    (lastCall.op = "initialize" /\ lastCall.created = Success) =>
        /\ Len(lastCall.calls) = 2 * Size(layers_)
        /\ \A i \in DOMAIN layers_ :
               /\ lastCall.calls[i + 1] = <<"readPrefs", i>>
               /\ lastCall.calls[Size(layers_) + i + 1] = <<"validatePrefs", i>>

\* initialize has returned after a readPrefs failure on one layer and a
\* validatePrefs failure on a layer that is not the last.
C16_Witness ==
    /\ phase = "returned"
    /\ lastCall.op = "initialize"
    /\ lastCall.created = Success
    /\ \E i \in DOMAIN layers_ :
           /\ lastCall.readErr[i] # Success
           /\ lastCall.valid[i] = Success
    /\ \E i \in DOMAIN layers_ :
           /\ i + 1 \in DOMAIN layers_
           /\ lastCall.valid[i] # Success
    /\ lastCall.calls[Len(lastCall.calls)] = <<"validatePrefs", Size(layers_) - 1>>

\* C17: every key layer L stored before writeLayer(L, prefs) that is not
\* among the pairs passed to writePrefs is still stored with its previous
\* value afterwards.
C17_NoKeyRemoved ==
    [][(WriteLayerStep /\ lastCall'.layer \in ValidIndices(layers_)) =>
        \A name \in DOMAIN layers_[lastCall'.layer] :
            name \notin Names(lastCall'.unique) =>
                Stores(layers_', lastCall'.layer, name,
                       layers_[lastCall'.layer][name])]_vars

\* A stale override has been kept: writeLayer(1, {theme: light}) succeeded
\* with nothing to write, base holds theme: light and layer 1 still stores
\* theme: dark.
C17_Witness ==
    /\ phase = "returned"
    /\ lastCall.op = "writeLayer"
    /\ lastCall.layer = 1
    /\ lastCall.prefs = <<<<"theme", "light">>>>
    /\ lastCall.error = Success
    /\ lastCall.unique = << >>
    /\ ReadValue(layers_[0], "theme") = "light"
    /\ Stores(layers_, 1, "theme", "dark")

\* C18: writeLayer(L, prefs) changes the content of no layer other than L,
\* and of no layer at all unless it returns success.
C18_OnlyTargetChanges ==
    [][WriteLayerStep =>
        /\ DOMAIN layers_' = DOMAIN layers_
        /\ \A i \in DOMAIN layers_ :
               i # lastCall'.layer => layers_'[i] = layers_[i]
        /\ lastCall'.error # Success => layers_' = layers_]_vars

\* writeLayer has returned the error of writePrefs, which was given a pair
\* to store, and the target layer does not store it.
C18_Witness ==
    /\ phase = "returned"
    /\ lastCall.op = "writeLayer"
    /\ lastCall.wrote \in WriteErrors
    /\ Len(lastCall.unique) > 0
    /\ ~Stores(layers_, lastCall.layer, lastCall.unique[1][1], lastCall.unique[1][2])

\* C20: a writeLayer call that returns success has emitted exactly one
\* notification, with the empty key; one that fails has emitted none.
C20_BulkChangeNotified ==
    lastCall.op = "writeLayer" =>
        lastCall.notified = IF lastCall.error = Success THEN <<"">> ELSE << >>

\* The stacks that writeLayer(layer, prefs) returning success can leave.
SuccessfulWrites(stack, layer, prefs) ==
    {o.stack : o \in {x \in WriteLayerOutcomes(stack, layer, prefs) :
                          ~x.crashed /\ x.error = Success}}

\* The stacks the two calls leave when made one after the other, in either
\* order, both returning success.
SerialResults ==
    LET a == threads.th[1]
        b == threads.th[2]
    IN  UNION {SuccessfulWrites(m, b.layer, b.prefs) :
                   m \in SuccessfulWrites(threads.init, a.layer, a.prefs)}
        \cup
        UNION {SuccessfulWrites(m, a.layer, a.prefs) :
                   m \in SuccessfulWrites(threads.init, b.layer, b.prefs)}

BothReturnedSuccess ==
    /\ phase = "concurrent"
    /\ \A t \in ThreadIds :
           threads.th[t].pc = "done" /\ threads.th[t].error = Success

\* C19: two unserialized writeLayer calls on different layers can leave
\* layer contents that neither serial order leaves, and they do so only
\* when the call on the higher layer has read the lower call's target layer
\* both before and after the lower call's writePrefs.
C19_NonSerialOnlyWhenObservedMidUpdate ==
    (BothReturnedSuccess /\ layers_ \notin SerialResults) =>
        threads.th[2].early /\ threads.th[2].late

\* Both calls have returned success, the higher one having read the lower
\* one's target layer before and after its update, and the layers hold what
\* neither serial order leaves.
C19_Witness ==
    /\ BothReturnedSuccess
    /\ threads.th[2].early
    /\ threads.th[2].late
    /\ layers_ \notin SerialResults

===========================================================================
